---------------------------- MODULE Spec2Model ----------------------------
(***************************************************************************)
(* A model of the password generator: the secure random integer source     *)
(* (CSPRNG.getRandomInt), the password construction and shuffle            *)
(* (CSPRNG.generatePassword, CSPRNG.shuffleString), the strength estimate  *)
(* (calculateStrength), the PasswordGenerator component's generate handler *)
(* and the CopyButton's copy handler.                                      *)
(*                                                                         *)
(* Strings are sequences of one-character strings.  JavaScript numbers are *)
(* integers here; the two non-integer values the code can compute for a    *)
(* byte count (NaN and -Infinity) are carried by a record's kind.          *)
(***************************************************************************)
EXTENDS Integers, Sequences, FiniteSets, TLC

VARIABLES
    \* ---- one call of CSPRNG.getRandomInt (specification SpecRand)
    rMin, rMax,      \* the arguments of the last call
    rArray,          \* the bytes crypto.getRandomValues wrote
    rOut,            \* what the call did: [threw, value, drawn]
    \* ---- one call of CSPRNG.generatePassword (specification Spec)
    caller,          \* "api": a direct call; "component": PasswordGenerator
    rngBytes,        \* the byte values crypto.getRandomValues writes in this call
    opts,            \* the options argument
    pc,              \* the call's position
    charPool,        \* let charPool
    password,        \* let password
    array,           \* shuffleString's array
    i,               \* shuffleString's loop index
    draws,           \* the number of getRandomInt calls this call has made
    swaps,           \* the swap indices a direct call of shuffleString drew
    ret,             \* [kind |-> "none" | "string" | "error", val |-> ...]
    \* ---- the PasswordGenerator component's state
    options, result, isLoading, strength, entropy,
    alertMsg,        \* the message of the last alert()
    uiPc,            \* "effect": the mount effect is due; "idle"; "awaiting"
    handled,         \* the last run of the generate handler, and the state before it
    \* ---- one call of calculateStrength (specification SpecStrength)
    sPassword,       \* the argument
    sOut,            \* [called, label, entropy]
    \* ---- the CopyButton component (specification SpecCopy)
    copied,          \* the copied state
    now,             \* the time, in milliseconds
    writes,          \* the clipboard writes in flight
    timers,          \* the deadlines of the pending setTimeout callbacks
    lastCopy         \* when the last clipboard write succeeded (-1: never)

rvars == <<rMin, rMax, rArray, rOut>>
gvars == <<caller, rngBytes, opts, pc, charPool, password, array, i, draws, swaps, ret>>
uvars == <<options, result, isLoading, strength, entropy, alertMsg, uiPc, handled>>
svars == <<sPassword, sOut>>
cvars == <<copied, now, writes, timers, lastCopy>>

vars == <<rvars, gvars, uvars, svars, cvars>>

-----------------------------------------------------------------------------
(* Bounds of the model *)

\* the sampled byte values are the multiples of ByteStride in 0..255, and 255
ByteStride == 85
\* getRandomInt is called with min in -MaxMin..MaxMin
MaxMin == 2
\* ... and with max - min in -MaxBelow..MaxSpan, or one of SampleSpans
MaxBelow == 3
MaxSpan == 4

\* calculateStrength is called with passwords of up to MaxPwLength characters
MaxPwLength == 20

\* the values one byte of a Uint8Array can hold
ByteValues == 0..255

\* the byte values the model lets crypto.getRandomValues write
SampleBytes == {b \in ByteValues : b % ByteStride = 0} \cup {255}

\* max - min for the ranges generatePassword draws from (10, 26, 28, 90) and
\* for ranges at the edges of one, two and three bytes
SampleSpans == {9, 25, 27, 89, 254, 255, 256, 65534, 65535, 65536}

-----------------------------------------------------------------------------
(* CSPRNG.getRandomInt *)

Num(v) == [kind |-> "num", val |-> v]
NaN == [kind |-> "NaN", val |-> 0]
NegInfinity == [kind |-> "-Infinity", val |-> 0]

RECURSIVE CeilLog256(_)
\* Math.ceil(Math.log2(range) / 8) for range >= 1: 0 for 1, and one more than
\* the count for ceil(range / 256) above it
CeilLog256(range) ==
    IF range <= 1 THEN 0 ELSE 1 + CeilLog256((range + 255) \div 256)

\* const bytesNeeded = Math.ceil(Math.log2(range) / 8): log2 of 0 is -Infinity
\* and of a negative number NaN, and Math.ceil keeps both
BytesNeeded(range) ==
    IF range >= 1 THEN Num(CeilLog256(range))
    ELSE IF range = 0 THEN NegInfinity
    ELSE NaN

\* new Uint8Array(bytesNeeded): ToIndex takes NaN to 0 and rejects -Infinity
\* with a RangeError
ArrayLength(bytesNeeded) ==
    CASE bytesNeeded.kind = "num" -> Num(bytesNeeded.val)
      [] bytesNeeded.kind = "NaN" -> Num(0)
      [] OTHER -> NegInfinity

\* the arrays crypto.getRandomValues can leave for a call with these arguments
\* (none when the constructor threw)
RandomArrays(min, max, source) ==
    LET n == ArrayLength(BytesNeeded(max - min + 1))
    IN  IF n.kind = "num" THEN [1..n.val -> source] ELSE {<<>>}

RECURSIVE BigEndian(_, _, _, _)
\* for (let i = 0; i < bytesNeeded; i++) value = (value * 256) + array[i];
\* the index counts from 1 here, and i < NaN is false
BigEndian(bytes, bytesNeeded, k, value) ==
    IF bytesNeeded.kind = "num" /\ k <= bytesNeeded.val
    THEN BigEndian(bytes, bytesNeeded, k + 1, (value * 256) + bytes[k])
    ELSE value

\* value % range of JavaScript for value >= 0: the sign is the dividend's
JsMod(value, range) ==
    IF range > 0 THEN value % range ELSE value % (0 - range)

\* getRandomInt without line 34's reduction
GetRandomIntNoModulo(min, max, bytes) ==
    LET range == max - min + 1
        bytesNeeded == BytesNeeded(range)
    IN  IF ArrayLength(bytesNeeded).kind # "num"
        THEN [threw |-> TRUE, value |-> 0, drawn |-> 0]
        ELSE [threw |-> FALSE,
              value |-> min + BigEndian(bytes, bytesNeeded, 1, 0),
              drawn |-> Len(bytes)]

\* getRandomInt reading the bytes lowest first
RECURSIVE LittleEndian(_, _, _, _)
LittleEndian(bytes, bytesNeeded, k, value) ==
    IF bytesNeeded.kind = "num" /\ k >= 1
    THEN LittleEndian(bytes, bytesNeeded, k - 1, (value * 256) + bytes[k])
    ELSE value

GetRandomIntLittleEndian(min, max, bytes) ==
    LET range == max - min + 1
        bytesNeeded == BytesNeeded(range)
    IN  IF ArrayLength(bytesNeeded).kind # "num"
        THEN [threw |-> TRUE, value |-> 0, drawn |-> 0]
        ELSE [threw |-> FALSE,
              value |-> min + JsMod(LittleEndian(bytes, bytesNeeded, Len(bytes), 0), range),
              drawn |-> Len(bytes)]

\* getRandomInt(min, max) when crypto.getRandomValues writes bytes into the array: whether it
\* threw, the value it returned and the number of bytes it drew
GetRandomInt(min, max, bytes) ==
    LET range == max - min + 1
        bytesNeeded == BytesNeeded(range)
    IN  IF ArrayLength(bytesNeeded).kind # "num"
        THEN [threw |-> TRUE, value |-> 0, drawn |-> 0]
        ELSE [threw |-> FALSE,
              value |-> min + JsMod(BigEndian(bytes, bytesNeeded, 1, 0), range),
              drawn |-> Len(bytes)]

-----------------------------------------------------------------------------
(* Specification SpecRand: calls of getRandomInt *)

NoCall == [threw |-> FALSE, value |-> 0, drawn |-> 0]

RandArgs ==
    {<<min, min + d>> : min \in (0 - MaxMin)..MaxMin,
                        d \in ((0 - MaxBelow)..MaxSpan) \cup SampleSpans}

\* the arguments of the call are any of RandArgs; nothing is drawn yet
RandInit ==
    /\ \E a \in RandArgs : rMin = a[1] /\ rMax = a[2]
    /\ rArray = <<>>
    /\ rOut = [called |-> FALSE, out |-> NoCall]

\* the call getRandomInt(rMin, rMax) returns
GetRandomIntReturns ==
    /\ ~rOut.called
    /\ \E bytes \in RandomArrays(rMin, rMax, SampleBytes) :
        LET out == GetRandomInt(rMin, rMax, bytes)
        IN  /\ ~out.threw
            /\ rArray' = bytes
            /\ rOut' = [called |-> TRUE, out |-> out]
    /\ UNCHANGED <<rMin, rMax, gvars, uvars, svars, cvars>>

\* the call getRandomInt(rMin, rMax) throws
GetRandomIntThrows ==
    /\ ~rOut.called
    /\ \E bytes \in RandomArrays(rMin, rMax, SampleBytes) :
        LET out == GetRandomInt(rMin, rMax, bytes)
        IN  /\ out.threw
            /\ rArray' = bytes
            /\ rOut' = [called |-> TRUE, out |-> out]
    /\ UNCHANGED <<rMin, rMax, gvars, uvars, svars, cvars>>

RandNext == GetRandomIntReturns \/ GetRandomIntThrows

-----------------------------------------------------------------------------
(* The character classes *)

uppercaseChars ==
    <<"A","B","C","D","E","F","G","H","I","J","K","L","M",
      "N","O","P","Q","R","S","T","U","V","W","X","Y","Z">>
lowercaseChars ==
    <<"a","b","c","d","e","f","g","h","i","j","k","l","m",
      "n","o","p","q","r","s","t","u","v","w","x","y","z">>
numberChars == <<"0","1","2","3","4","5","6","7","8","9">>
symbolChars ==
    <<"!","@","#","$","%","^","&","*","(",")","_","-","+","=",
      "{","}","[","]","|",":",";","<",">",",",".","?","/","~">>

Chars(s) == {s[k] : k \in 1..Len(s)}

-----------------------------------------------------------------------------
(* calculateStrength *)

\* /[a-z]/.test(password) and the other three patterns
HasLower(pw) == \E k \in 1..Len(pw) : pw[k] \in Chars(lowercaseChars)
HasUpper(pw) == \E k \in 1..Len(pw) : pw[k] \in Chars(uppercaseChars)
HasDigit(pw) == \E k \in 1..Len(pw) : pw[k] \in Chars(numberChars)
HasOther(pw) ==
    \E k \in 1..Len(pw) :
        pw[k] \notin Chars(uppercaseChars) \cup Chars(lowercaseChars) \cup Chars(numberChars)

CharsetSize(pw) ==
    (IF HasLower(pw) THEN 26 ELSE 0) + (IF HasUpper(pw) THEN 26 ELSE 0)
    + (IF HasDigit(pw) THEN 10 ELSE 0) + (IF HasOther(pw) THEN 33 ELSE 0)

(* Math.log2 in binary fixed point, FracBits bits after the point: the integer
   part is the position of the leading bit, and each further bit comes from
   squaring the mantissa (kept to MantBits bits).  The result is below the
   real logarithm by less than 2^-11, which no comparison or rounding of
   calculateStrength is that close to for a charset size the function can
   compute and a length up to 64. *)
Precision == [frac |-> 12, mant |-> 14]
FracBits == Precision.frac
MantBits == Precision.mant

RECURSIVE Pow2(_)
Pow2(n) == IF n = 0 THEN 1 ELSE 2 * Pow2(n - 1)

RECURSIVE FloorLog2(_)
FloorLog2(x) == IF x <= 1 THEN 0 ELSE 1 + FloorLog2(x \div 2)

RECURSIVE Log2Frac(_, _, _)
Log2Frac(m, k, acc) ==
    IF k > FracBits THEN acc
    ELSE LET sq == (m * m) \div Pow2(MantBits)
         IN  IF sq >= Pow2(MantBits + 1)
             THEN Log2Frac(sq \div 2, k + 1, acc + Pow2(FracBits - k))
             ELSE Log2Frac(sq, k + 1, acc)

\* Math.log2(x) for an integer x >= 1, in units of 2^-FracBits
Log2Fixed(x) ==
    LET e == FloorLog2(x)
    IN  e * Pow2(FracBits) + Log2Frac((x * Pow2(MantBits)) \div Pow2(e), 1, 0)

\* passwordEntropy = Math.log2(charsetSize) * password.length, in units of
\* 2^-FracBits: log2(0) is -Infinity, and -Infinity * 0 is NaN
PasswordEntropy(pw) ==
    LET charsetSize == CharsetSize(pw)
    IN  IF charsetSize > 0 THEN Num(Log2Fixed(charsetSize) * Len(pw))
        ELSE IF Len(pw) = 0 THEN NaN
        ELSE NegInfinity

\* Math.round of a value in units of 2^-FracBits; NaN and -Infinity stay
MathRound(x) ==
    IF x.kind = "num"
    THEN Num((2 * x.val + Pow2(FracBits)) \div Pow2(FracBits + 1))
    ELSE x

\* x < bits and x >= bits of JavaScript: both false of NaN
LessThan(x, bits) ==
    CASE x.kind = "num" -> x.val < bits * Pow2(FracBits)
      [] x.kind = "-Infinity" -> TRUE
      [] OTHER -> FALSE
AtLeast(x, bits) ==
    CASE x.kind = "num" -> x.val >= bits * Pow2(FracBits)
      [] OTHER -> FALSE

\* calculateStrength without line 35's test of the length
calculateStrengthAnyLength(pw) ==
    LET passwordEntropy == PasswordEntropy(pw)
        label ==
            IF LessThan(passwordEntropy, 40) THEN "weak"
            ELSE IF /\ AtLeast(passwordEntropy, 80)
                    /\ HasUpper(pw) /\ HasLower(pw) /\ HasDigit(pw) /\ HasOther(pw)
                 THEN "strong"
            ELSE "medium"
    IN  [label |-> label, entropy |-> MathRound(passwordEntropy)]

\* calculateStrength(password): the label it returns and the entropy it sets
calculateStrength(pw) ==
    LET passwordEntropy == PasswordEntropy(pw)
        label ==
            IF LessThan(passwordEntropy, 40) \/ Len(pw) < 8 THEN "weak"
            ELSE IF /\ AtLeast(passwordEntropy, 80)
                    /\ HasUpper(pw) /\ HasLower(pw) /\ HasDigit(pw) /\ HasOther(pw)
                 THEN "strong"
            ELSE "medium"
    IN  [label |-> label, entropy |-> MathRound(passwordEntropy)]

-----------------------------------------------------------------------------
(* Specification SpecStrength: calls of calculateStrength *)

\* the character patterns the passwords are made of
Seeds ==
    { <<"a","B","3","!">>, <<"a","b","c","d","e","f","g","h">>, <<"Q">>, <<"7">>,
      <<"#"," ">>, <<"a","B">>, <<"x","9">>, <<"Z","z","9">>, <<"A","5","~">>,
      <<"k","_","0">>, <<"M","?">>, <<"4","2","a","B","!">> }

\* the first n characters of seed repeated
Cycle(seed, n) == [k \in 1..n |-> seed[((k - 1) % Len(seed)) + 1]]

StrengthInit ==
    /\ \E seed \in Seeds, n \in 0..MaxPwLength : sPassword = Cycle(seed, n)
    /\ sOut = [called |-> FALSE, label |-> "", entropy |-> NaN]

\* the call calculateStrength(sPassword)
CallCalculateStrength ==
    /\ ~sOut.called
    /\ LET out == calculateStrength(sPassword)
       IN  sOut' = [called |-> TRUE, label |-> out.label, entropy |-> out.entropy]
    /\ UNCHANGED <<sPassword, rvars, gvars, uvars, cvars>>

StrengthNext == CallCalculateStrength

-----------------------------------------------------------------------------
(* CSPRNG.generatePassword and CSPRNG.shuffleString, one getRandomInt call a step *)

\* the options a direct call is made with
MaxLength == 4
\* the slider of the component sets a length of 8..64, here up to MaxSlider
MaxSlider == 8

AllOptions ==
    [length : 1..MaxLength, uppercase : BOOLEAN, lowercase : BOOLEAN,
     numbers : BOOLEAN, symbols : BOOLEAN]

NoRet == [kind |-> "none", val |-> <<>>]

\* str.charAt(index): the empty string outside the string
CharAt(str, index) ==
    IF index \in 0..(Len(str) - 1) THEN <<str[index + 1]>> ELSE <<>>

\* what this.getRandomInt(min, max) can do in this call
Draw(min, max) ==
    {GetRandomInt(min, max, bytes) : bytes \in RandomArrays(min, max, rngBytes)}

\* lines 56-61: the pool of the selected classes
CharPoolOf(o) ==
    (IF o.uppercase THEN uppercaseChars ELSE <<>>)
    \o (IF o.lowercase THEN lowercaseChars ELSE <<>>)
    \o (IF o.numbers THEN numberChars ELSE <<>>)
    \o (IF o.symbols THEN symbolChars ELSE <<>>)

\* lines 48-68: the pool is built; an empty pool throws
BuildPool ==
    /\ pc = "pool"
    /\ charPool' = CharPoolOf(opts)
    /\ IF Len(CharPoolOf(opts)) = 0
       THEN /\ pc' = "thrown"
            /\ ret' = [kind |-> "error",
                       val |-> "At least one character type must be selected"]
       ELSE /\ pc' = "uppercase"
            /\ ret' = ret
    /\ password' = <<>>
    /\ UNCHANGED <<caller, rngBytes, opts, array, i, draws, swaps>>
    /\ UNCHANGED <<rvars, uvars, svars, cvars>>

\* if (selected) password += chars.charAt(this.getRandomInt(0, chars.length - 1))
PickFrom(selected, chars, next) ==
    /\ IF selected
       THEN \E out \in Draw(0, Len(chars) - 1) :
              /\ draws' = draws + 1
              /\ IF out.threw
                 THEN /\ pc' = "thrown"
                      /\ ret' = [kind |-> "error", val |-> "RangeError"]
                      /\ password' = password
                 ELSE /\ pc' = next
                      /\ ret' = ret
                      /\ password' = password \o CharAt(chars, out.value)
       ELSE /\ pc' = next
            /\ UNCHANGED <<draws, ret, password>>
    /\ UNCHANGED <<caller, rngBytes, opts, charPool, array, i, swaps>>
    /\ UNCHANGED <<rvars, uvars, svars, cvars>>

\* lines 70-72
PickUppercase == pc = "uppercase" /\ PickFrom(opts.uppercase, uppercaseChars, "lowercase")
\* lines 74-76
PickLowercase == pc = "lowercase" /\ PickFrom(opts.lowercase, lowercaseChars, "numbers")
\* lines 78-80
PickNumber == pc = "numbers" /\ PickFrom(opts.numbers, numberChars, "symbols")
\* lines 82-84
PickSymbol == pc = "symbols" /\ PickFrom(opts.symbols, symbolChars, "fill")

\* the loop condition with <= for <
FillsOneTooMany(pw, length) == Len(pw) <= length

\* line 87: while (password.length < length)
FillMore(pw, length) == Len(pw) < length

\* lines 87-90: one turn of the loop that fills the password
Fill ==
    /\ pc = "fill"
    /\ FillMore(password, opts.length)
    /\ PickFrom(TRUE, charPool, "fill")

\* lines 93 and 100-101: the loop is left, shuffleString splits the password;
\* generatePassword reads neither password nor charPool again
EnterShuffle ==
    /\ pc = "fill"
    /\ ~FillMore(password, opts.length)
    /\ pc' = "shuffle"
    /\ array' = password
    /\ i' = Len(password) - 1
    /\ password' = <<>>
    /\ charPool' = <<>>
    /\ UNCHANGED <<caller, rngBytes, opts, draws, swaps, ret>>
    /\ UNCHANGED <<rvars, uvars, svars, cvars>>

\* a swap that loses array[i]
SwapOverwrites(a, x, y) == [a EXCEPT ![x + 1] = a[y + 1]]

\* [array[i], array[j]] = [array[j], array[i]] (i and j count from 0)
Swap(a, x, y) == [a EXCEPT ![x + 1] = a[y + 1], ![y + 1] = a[x + 1]]

\* a swap index that is never the position itself
SwapIndexBelow(x) == x - 1

\* line 102: the swap index of position x is drawn from 0..x
SwapIndexMax(x) == x

\* lines 101-104: one turn of shuffleString's loop
ShuffleStep ==
    /\ pc = "shuffle"
    /\ i > 0
    /\ \E out \in Draw(0, SwapIndexMax(i)) :
         /\ draws' = draws + 1
         /\ IF out.threw
            THEN /\ pc' = "thrown"
                 /\ ret' = [kind |-> "error", val |-> "RangeError"]
                 /\ UNCHANGED <<array, i, swaps>>
            ELSE /\ array' = Swap(array, i, out.value)
                 /\ i' = i - 1
                 /\ swaps' = IF caller = "shuffleString"
                             THEN Append(swaps, out.value) ELSE swaps
                 /\ UNCHANGED <<pc, ret>>
    /\ UNCHANGED <<caller, rngBytes, opts, charPool, password>>
    /\ UNCHANGED <<rvars, uvars, svars, cvars>>

\* line 105 and line 93: array.join('') is returned
Return ==
    /\ pc = "shuffle"
    /\ ~(i > 0)
    /\ pc' = "returned"
    /\ ret' = [kind |-> "string", val |-> array]
    /\ UNCHANGED <<caller, rngBytes, opts, charPool, password, array, i, draws, swaps>>
    /\ UNCHANGED <<rvars, uvars, svars, cvars>>

CsprngStep ==
    \/ BuildPool
    \/ PickUppercase
    \/ PickLowercase
    \/ PickNumber
    \/ PickSymbol
    \/ Fill
    \/ EnterShuffle
    \/ ShuffleStep
    \/ Return

-----------------------------------------------------------------------------
(* The PasswordGenerator component *)

\* the byte the random source repeats through one call made by the component
ComponentBytes == {0, 255}

\* the lengths the range input (min 8, max 64) sets
SliderLengths == {l \in 8..64 : l <= MaxSlider}

\* line 49: no character type is selected
NoneSelected(o) == ~o.uppercase /\ ~o.lowercase /\ ~o.numbers /\ ~o.symbols

\* generatePassword setting isLoading before it validates, with no finally
StartGenerateKeepsLoading ==
    /\ handled' = [outcome |-> IF NoneSelected(options) THEN "rejected" ELSE "running",
                   result |-> result, strength |-> strength]
    /\ IF NoneSelected(options)
       THEN /\ alertMsg' = "Please select at least one character type"
            /\ isLoading' = TRUE
            /\ uiPc' = "idle"
            /\ UNCHANGED gvars
       ELSE /\ isLoading' = TRUE
            /\ uiPc' = "awaiting"
            /\ opts' = options
            /\ pc' = "pool"
            /\ draws' = 0
            /\ \E b \in ComponentBytes : rngBytes' = {b}
            /\ UNCHANGED <<alertMsg, caller, charPool, password, array, i, swaps, ret>>
    /\ UNCHANGED <<options, result, strength, entropy>>
    /\ UNCHANGED <<rvars, svars, cvars>>

\* lines 46-54 and 57-61: generatePassword up to its await, or to its end when
\* the validation throws
StartGenerate ==
    /\ handled' = [outcome |-> IF NoneSelected(options) THEN "rejected" ELSE "running",
                   result |-> result, strength |-> strength]
    /\ IF NoneSelected(options)
       THEN /\ alertMsg' = "Please select at least one character type"
            /\ isLoading' = FALSE
            /\ uiPc' = "idle"
            /\ UNCHANGED gvars
       ELSE /\ isLoading' = TRUE
            /\ uiPc' = "awaiting"
            /\ opts' = options
            /\ pc' = "pool"
            /\ draws' = 0
            /\ \E b \in ComponentBytes : rngBytes' = {b}
            /\ UNCHANGED <<alertMsg, caller, charPool, password, array, i, swaps, ret>>
    /\ UNCHANGED <<options, result, strength, entropy>>
    /\ UNCHANGED <<rvars, svars, cvars>>

\* lines 65-67: the effect of the first render
MountEffect == uiPc = "effect" /\ StartGenerate

\* a call of generatePassword after the mount.  Its caller is the Generate
\* button (line 171), which line 172 disables while no class is selected: the
\* function is modelled for every value of options, as lines 48-51 provide
\* for, and rejects the call itself
CallGenerate == uiPc = "idle" /\ StartGenerate

\* lines 54-61: generatePassword after its await
ResumeGenerate ==
    /\ uiPc = "awaiting"
    /\ pc \in {"returned", "thrown"}
    /\ IF pc = "returned"
       THEN /\ result' = ret.val
            /\ strength' = calculateStrength(ret.val).label
            /\ entropy' = calculateStrength(ret.val).entropy
            /\ alertMsg' = alertMsg
       ELSE /\ alertMsg' = ret.val
            /\ UNCHANGED <<result, strength, entropy>>
    /\ handled' = [outcome |-> IF pc = "returned" THEN "generated" ELSE "failed",
                   result |-> <<>>, strength |-> "null"]
    /\ isLoading' = FALSE
    /\ uiPc' = "idle"
    /\ pc' = "idle"
    /\ charPool' = <<>>
    /\ password' = <<>>
    /\ array' = <<>>
    /\ i' = 0
    /\ ret' = NoRet
    /\ draws' = 0
    /\ rngBytes' = {0}
    /\ UNCHANGED <<options, caller, opts, swaps>>
    /\ UNCHANGED <<rvars, svars, cvars>>

SetOptions(o) ==
    /\ uiPc = "idle"
    /\ options' = o
    /\ UNCHANGED <<result, isLoading, strength, entropy, alertMsg, uiPc, handled>>
    /\ UNCHANGED <<rvars, gvars, svars, cvars>>

\* line 118
ChangeLength == \E l \in SliderLengths : SetOptions([options EXCEPT !.length = l])
\* lines 133, 143, 153, 163
ToggleUppercase == SetOptions([options EXCEPT !.uppercase = ~options.uppercase])
ToggleLowercase == SetOptions([options EXCEPT !.lowercase = ~options.lowercase])
ToggleNumbers == SetOptions([options EXCEPT !.numbers = ~options.numbers])
ToggleSymbols == SetOptions([options EXCEPT !.symbols = ~options.symbols])

ComponentStep ==
    \/ MountEffect
    \/ CallGenerate
    \/ ResumeGenerate
    \/ ChangeLength
    \/ ToggleUppercase
    \/ ToggleLowercase
    \/ ToggleNumbers
    \/ ToggleSymbols

-----------------------------------------------------------------------------
(* The CopyButton component *)

\* setTimeout's delay, line 19
ResetDelay == 2000
\* the clock moves in steps of TickMs up to MaxTime
TickMs == 500
MaxTime == 4000
\* at most MaxWrites clipboard writes are in flight
MaxWrites == 2

\* lines 11-13: a click calls handleCopy, which awaits the clipboard write
ClickCopy ==
    /\ writes < MaxWrites
    /\ writes' = writes + 1
    /\ UNCHANGED <<copied, now, timers, lastCopy>>
    /\ UNCHANGED <<rvars, gvars, uvars, svars>>

\* lines 14-19: the write succeeded
WriteSucceeds ==
    /\ writes > 0
    /\ writes' = writes - 1
    /\ copied' = TRUE
    /\ timers' = timers \cup {now + ResetDelay}
    /\ lastCopy' = now
    /\ UNCHANGED now
    /\ UNCHANGED <<rvars, gvars, uvars, svars>>

\* lines 20-22: the write failed, which is only logged
WriteFails ==
    /\ writes > 0
    /\ writes' = writes - 1
    /\ UNCHANGED <<copied, now, timers, lastCopy>>
    /\ UNCHANGED <<rvars, gvars, uvars, svars>>

\* lines 17-19: a timer that is due runs its callback
TimerFires ==
    /\ \E t \in timers :
         /\ t <= now
         /\ timers' = timers \ {t}
    /\ copied' = FALSE
    /\ UNCHANGED <<now, writes, lastCopy>>
    /\ UNCHANGED <<rvars, gvars, uvars, svars>>

\* time passes when no timer is due
Tick ==
    /\ now + TickMs <= MaxTime
    /\ \A t \in timers : t > now
    /\ now' = now + TickMs
    /\ UNCHANGED <<copied, writes, timers, lastCopy>>
    /\ UNCHANGED <<rvars, gvars, uvars, svars>>

CopyNext == ClickCopy \/ WriteSucceeds \/ WriteFails \/ TimerFires \/ Tick

-----------------------------------------------------------------------------
(* The states the parts of the program start in *)

RandIdle ==
    /\ rMin = 0
    /\ rMax = 0
    /\ rArray = <<>>
    /\ rOut = [called |-> FALSE, out |-> NoCall]

StrengthIdle ==
    /\ sPassword = <<>>
    /\ sOut = [called |-> FALSE, label |-> "", entropy |-> NaN]

CopyIdle ==
    /\ copied = FALSE
    /\ now = 0
    /\ writes = 0
    /\ timers = {}
    /\ lastCopy = -1

\* lines 7-18: the component's initial state
ComponentInit ==
    /\ options = [length |-> 16, numbers |-> TRUE, symbols |-> TRUE,
                  uppercase |-> TRUE, lowercase |-> TRUE]
    /\ result = <<>>
    /\ isLoading = FALSE
    /\ strength = "null"
    /\ entropy = Num(0)
    /\ alertMsg = ""
    /\ handled = [outcome |-> "none", result |-> <<>>, strength |-> "null"]

CallInit ==
    /\ charPool = <<>>
    /\ password = <<>>
    /\ array = <<>>
    /\ i = 0
    /\ draws = 0
    /\ swaps = <<>>
    /\ ret = NoRet

-----------------------------------------------------------------------------
(* Specification Spec: CSPRNG.generatePassword, called directly with any
   options or by the component *)

Init ==
    /\ \/ /\ caller = "api"
          /\ opts \in AllOptions
          /\ pc = "pool"
          /\ rngBytes = SampleBytes
          /\ uiPc = "none"
       \/ /\ caller = "component"
          /\ opts = [length |-> 16, numbers |-> TRUE, symbols |-> TRUE,
                     uppercase |-> TRUE, lowercase |-> TRUE]
          /\ pc = "idle"
          /\ rngBytes = {0}
          /\ uiPc = "effect"
    /\ CallInit
    /\ ComponentInit
    /\ RandIdle
    /\ StrengthIdle
    /\ CopyIdle

Next == CsprngStep \/ ComponentStep

Spec == Init /\ [][Next]_vars

-----------------------------------------------------------------------------
(* The other specifications: each part of the program on its own *)

\* no call of generatePassword is in progress and no component is mounted
NoCallInit ==
    /\ caller = "none"
    /\ opts = [length |-> 16, numbers |-> TRUE, symbols |-> TRUE,
               uppercase |-> TRUE, lowercase |-> TRUE]
    /\ pc = "idle"
    /\ rngBytes = {}
    /\ uiPc = "none"
    /\ CallInit
    /\ ComponentInit

RandSpecInit == RandInit /\ NoCallInit /\ StrengthIdle /\ CopyIdle

SpecRand == RandSpecInit /\ [][RandNext]_vars

StrengthSpecInit == StrengthInit /\ NoCallInit /\ RandIdle /\ CopyIdle

SpecStrength == StrengthSpecInit /\ [][StrengthNext]_vars

CopySpecInit == CopyIdle /\ NoCallInit /\ RandIdle /\ StrengthIdle

SpecCopy == CopySpecInit /\ [][CopyNext]_vars

\* shuffleString is called with strings of up to MaxShuffleLen characters
MaxShuffleLen == 5

Letters == <<"a","b","c","d","e","f","g","h">>

\* strings of distinct characters, and strings that repeat two characters
ShuffleInputs ==
    {SubSeq(Letters, 1, n) : n \in 0..MaxShuffleLen}
    \cup {Cycle(<<"x","y">>, n) : n \in 2..MaxShuffleLen}

\* line 99: shuffleString(str), with every byte value the source can write
ShuffleSpecInit ==
    /\ caller = "shuffleString"
    /\ opts = [length |-> 16, numbers |-> TRUE, symbols |-> TRUE,
               uppercase |-> TRUE, lowercase |-> TRUE]
    /\ rngBytes = ByteValues
    /\ \E str \in ShuffleInputs :
         /\ password = str
         /\ array = str
         /\ i = Len(str) - 1
    /\ pc = "shuffle"
    /\ charPool = <<>>
    /\ draws = 0
    /\ swaps = <<>>
    /\ ret = NoRet
    /\ uiPc = "none"
    /\ ComponentInit /\ RandIdle /\ StrengthIdle /\ CopyIdle

ShuffleNext == ShuffleStep \/ Return

SpecShuffle == ShuffleSpecInit /\ [][ShuffleNext]_vars

-----------------------------------------------------------------------------
(* Properties of CSPRNG.getRandomInt (SpecRand) *)

RECURSIVE Pow256(_)
Pow256(k) == IF k = 0 THEN 1 ELSE 256 * Pow256(k - 1)

\* the least k >= from with 256^k >= range (range < 256^3)
LeastBytes(range, from) ==
    CHOOSE k \in from..3 :
        /\ Pow256(k) >= range
        /\ \A m \in from..(k - 1) : Pow256(m) < range

RECURSIVE RawValue(_)
\* the unsigned value of bytes read big-endian
RawValue(bytes) ==
    IF bytes = <<>> THEN 0
    ELSE bytes[Len(bytes)] + 256 * RawValue(SubSeq(bytes, 1, Len(bytes) - 1))

\* C5: for min <= max, min = max included, and whatever bytes are drawn,
\* getRandomInt(min, max) returns an integer r with min <= r <= max.
RandomIntInRange ==
    (rOut.called /\ rMin <= rMax) =>
        /\ ~rOut.out.threw
        /\ rMin <= rOut.out.value
        /\ rOut.out.value <= rMax

\* a call over a range of several values returned its upper end
RandomIntReachedMax ==
    /\ rOut.called
    /\ rMin < rMax
    /\ ~rOut.out.threw
    /\ rOut.out.value = rMax

\* C6: getRandomInt(min, max) with max < min ends in an error, never in a
\* returned number.
InvalidRangeThrows ==
    (rOut.called /\ rMax < rMin) => rOut.out.threw

\* C8 as stated: for min <= max, getRandomInt draws exactly k bytes, k the
\* smallest integer >= 1 with 256^k >= max - min + 1, and returns
\* min + (raw mod range), raw the big-endian value of the bytes.
DrawsAtLeastOneByte ==
    (rOut.called /\ rMin <= rMax) =>
        /\ ~rOut.out.threw
        /\ rOut.out.drawn = LeastBytes(rMax - rMin + 1, 1)
        /\ Len(rArray) = rOut.out.drawn
        /\ rOut.out.value = rMin + (RawValue(rArray) % (rMax - rMin + 1))

\* C8 amended: for min <= max, getRandomInt draws exactly k bytes, k the
\* smallest integer >= 0 with 256^k >= max - min + 1 (none when min = max),
\* and returns min + (raw mod range), raw the big-endian value of the bytes
\* (0 when there are none).
DrawsLeastBytes ==
    (rOut.called /\ rMin <= rMax) =>
        /\ ~rOut.out.threw
        /\ rOut.out.drawn = LeastBytes(rMax - rMin + 1, 0)
        /\ Len(rArray) = rOut.out.drawn
        /\ rOut.out.value = rMin + (RawValue(rArray) % (rMax - rMin + 1))

\* a call drew two different bytes, the first the smaller
DrewTwoBytes ==
    /\ rOut.called
    /\ rMin <= rMax
    /\ rOut.out.drawn = 2
    /\ Len(rArray) = 2
    /\ 0 < rArray[1]
    /\ rArray[1] < rArray[2]

-----------------------------------------------------------------------------
(* Properties of CSPRNG.generatePassword (Spec) *)

SelectedCount(o) ==
    (IF o.uppercase THEN 1 ELSE 0) + (IF o.lowercase THEN 1 ELSE 0)
    + (IF o.numbers THEN 1 ELSE 0) + (IF o.symbols THEN 1 ELSE 0)

\* at least one class is selected and the length has room for one of each
ValidOptions(o) == SelectedCount(o) >= 1 /\ o.length >= SelectedCount(o)

\* C1: for valid options and whatever is drawn, generatePassword returns a
\* string of exactly options.length characters (and does not throw).
PasswordHasLength ==
    /\ (pc = "returned" /\ ValidOptions(opts)) =>
           /\ ret.kind = "string"
           /\ Len(ret.val) = opts.length
    /\ pc = "thrown" => ~ValidOptions(opts)

\* a direct call with all four classes returned a password of four
\* characters that starts with the symbol, which was drawn last
ReturnedShuffledPassword ==
    /\ caller = "api"
    /\ pc = "returned"
    /\ SelectedCount(opts) = 4
    /\ opts.length = 4
    /\ Len(ret.val) = 4
    /\ ret.val[1] \in Chars(symbolChars)

HasClass(str, chars) == \E k \in 1..Len(str) : str[k] \in Chars(chars)

\* C2: for valid options and whatever is drawn, the returned string holds at
\* least one character of every selected class and none of a class that is
\* not selected, the shuffle included.
PasswordHasSelectedClasses ==
    (pc = "returned" /\ ValidOptions(opts)) =>
        /\ HasClass(ret.val, uppercaseChars) <=> opts.uppercase
        /\ HasClass(ret.val, lowercaseChars) <=> opts.lowercase
        /\ HasClass(ret.val, numberChars) <=> opts.numbers
        /\ HasClass(ret.val, symbolChars) <=> opts.symbols
        /\ \A k \in 1..Len(ret.val) :
               ret.val[k] \in Chars(uppercaseChars) \cup Chars(lowercaseChars)
                              \cup Chars(numberChars) \cup Chars(symbolChars)

\* a direct call for uppercase letters and digits returned a password of
\* three characters that starts with a digit: the letter drawn first was moved
ReturnedTwoClasses ==
    /\ caller = "api"
    /\ pc = "returned"
    /\ opts.uppercase /\ ~opts.lowercase /\ opts.numbers /\ ~opts.symbols
    /\ opts.length = 3
    /\ ret.val[1] \in Chars(numberChars)
    /\ ret.val[3] \in Chars(uppercaseChars)

\* C3: with no class selected generatePassword throws, for every length,
\* before any random number is drawn and without a password; the component's
\* handler then leaves the displayed result and strength as they were and
\* ends with isLoading false.
NoClassIsRejected ==
    /\ (NoneSelected(opts) /\ pc \notin {"idle", "pool"}) => pc = "thrown"
    /\ pc = "thrown" =>
           /\ NoneSelected(opts)
           /\ draws = 0
           /\ password = <<>>
           /\ ret = [kind |-> "error",
                     val |-> "At least one character type must be selected"]
    /\ uiPc = "awaiting" => ~NoneSelected(opts)
    /\ handled.outcome = "rejected" =>
           /\ result = handled.result
           /\ strength = handled.strength
           /\ isLoading = FALSE
           /\ uiPc = "idle"
           /\ alertMsg = "Please select at least one character type"

\* the component's handler ran with no class selected while a password was
\* displayed
RejectedWithResultShown ==
    /\ handled.outcome = "rejected"
    /\ NoneSelected(options)
    /\ result # <<>>
    /\ strength # "null"

\* a direct call with no class selected threw
DirectCallThrew ==
    /\ caller = "api"
    /\ pc = "thrown"
    /\ opts.length > 1

\* C4: with options.length below the number of selected classes the call
\* fails: it never returns a string.
ShortLengthIsRejected ==
    pc = "returned" => opts.length >= SelectedCount(opts)

-----------------------------------------------------------------------------
(* Properties of calculateStrength (SpecStrength) *)

RECURSIVE TimesSmall(_, _, _)
\* a number in limbs of 10 bits, the lowest first, times c, plus carry
TimesSmall(limbs, c, carry) ==
    IF limbs = <<>>
    THEN IF carry = 0 THEN <<>>
         ELSE <<carry % 1024>> \o TimesSmall(<<>>, c, carry \div 1024)
    ELSE LET t == Head(limbs) * c + carry
         IN  <<t % 1024>> \o TimesSmall(Tail(limbs), c, t \div 1024)

RECURSIVE PowerLimbs(_, _)
\* c^n in limbs, no longer multiplied once it has reached 2^80
PowerLimbs(c, n) ==
    IF n = 0 THEN <<1>>
    ELSE LET p == PowerLimbs(c, n - 1)
         IN  IF Len(p) >= 9 THEN p ELSE TimesSmall(p, c, 0)

\* c^n >= 2^40 and c^n >= 2^80, for c >= 1
PowerAtLeast2To40(c, n) == Len(PowerLimbs(c, n)) >= 5
PowerAtLeast2To80(c, n) == Len(PowerLimbs(c, n)) >= 9

IsLowerCase(ch) == \E k \in 1..26 : lowercaseChars[k] = ch
IsUpperCase(ch) == \E k \in 1..26 : uppercaseChars[k] = ch
IsDigit(ch) == \E k \in 1..10 : numberChars[k] = ch

\* the label C7 gives a password
ExpectedLabel(pw) ==
    LET n == Len(pw)
        lower == \E k \in 1..n : IsLowerCase(pw[k])
        upper == \E k \in 1..n : IsUpperCase(pw[k])
        digit == \E k \in 1..n : IsDigit(pw[k])
        other == \E k \in 1..n : ~IsLowerCase(pw[k]) /\ ~IsUpperCase(pw[k]) /\ ~IsDigit(pw[k])
        c == (IF lower THEN 26 ELSE 0) + (IF upper THEN 26 ELSE 0)
             + (IF digit THEN 10 ELSE 0) + (IF other THEN 33 ELSE 0)
    IN  IF n < 8 \/ ~PowerAtLeast2To40(c, n) THEN "weak"
        ELSE IF PowerAtLeast2To80(c, n) /\ lower /\ upper /\ digit /\ other THEN "strong"
        ELSE "medium"

\* C7: the label is weak if c^n < 2^40 or n < 8, else strong if c^n >= 2^80
\* and all four classes are present, else medium, c the sum of 26, 26, 10 and
\* 33 over the classes present and n the length; so 'abcdefgh' is weak,
\* 'aB3!aB3!' medium and a 20-character string with all four classes strong.
StrengthLabelRule ==
    sOut.called =>
        /\ sOut.label = ExpectedLabel(sPassword)
        /\ sPassword = <<"a","b","c","d","e","f","g","h">> => sOut.label = "weak"
        /\ sPassword = <<"a","B","3","!","a","B","3","!">> => sOut.label = "medium"
        /\ (Len(sPassword) = 20 /\ HasLower(sPassword) /\ HasUpper(sPassword)
            /\ HasDigit(sPassword) /\ HasOther(sPassword)) => sOut.label = "strong"

\* a 20-character password with all four classes was rated strong
RatedStrong ==
    /\ sOut.called
    /\ Len(sPassword) = 20
    /\ sPassword[1] = "a" /\ sPassword[2] = "B" /\ sPassword[3] = "3" /\ sPassword[4] = "!"
    /\ sOut.label = "strong"

-----------------------------------------------------------------------------
(* Properties of CSPRNG.shuffleString (SpecShuffle) *)

RECURSIVE Factorial(_)
Factorial(n) == IF n <= 1 THEN 1 ELSE n * Factorial(n - 1)

\* the sequences of swap indices for n positions: one index j in 0..x for each
\* position x from n - 1 down to 1
SwapSequences(n) ==
    IF n <= 1 THEN {<<>>}
    ELSE {js \in [1..(n - 1) -> 0..(n - 1)] : \A k \in 1..(n - 1) : js[k] <= n - k}

RECURSIVE ApplySwaps(_, _, _)
\* str after the swaps js[k], js[k + 1], ... of positions n - k, n - k - 1, ...
ApplySwaps(str, js, k) ==
    IF k > Len(js) THEN str
    ELSE LET x == Len(str) - k
         IN  ApplySwaps([str EXCEPT ![x + 1] = str[js[k] + 1], ![js[k] + 1] = str[x + 1]],
                        js, k + 1)

Occurrences(str, ch) == Cardinality({k \in 1..Len(str) : str[k] = ch})

\* C9: every sequence of swap indices (j in 0..x for position x from n - 1
\* down to 1) can be drawn and gives a rearrangement of the input with the same
\* characters as often, and over n distinct characters no two sequences give
\* the same result: as there are n! sequences, each permutation comes from
\* exactly one.
ShuffleIsBijective ==
    /\ (pc = "shuffle" /\ i > 0) =>
           \A j \in 0..i : ENABLED (ShuffleStep /\ array' = Swap(array, i, j))
    /\ pc = "returned" =>
           /\ swaps \in SwapSequences(Len(password))
           /\ ret.val = ApplySwaps(password, swaps, 1)
           /\ \A ch \in Chars(password) \cup Chars(ret.val) :
                  Occurrences(ret.val, ch) = Occurrences(password, ch)
           /\ Cardinality(SwapSequences(Len(password))) = Factorial(Len(password))
           /\ Cardinality(Chars(password)) = Len(password) =>
                  \A js \in SwapSequences(Len(password)) :
                      ApplySwaps(password, js, 1) = ret.val => js = swaps

\* four distinct characters came back reversed
ShuffleReversed ==
    /\ caller = "shuffleString"
    /\ pc = "returned"
    /\ password = <<"a","b","c","d">>
    /\ ret.val = <<"d","c","b","a">>

-----------------------------------------------------------------------------
(* Properties of CopyButton (SpecCopy) *)

\* C10: after a clipboard write succeeds, copied stays true until 2 seconds
\* after that write and is then false, also when the click came while the
\* timer of an earlier one was pending; a failed write changes nothing.
CopiedForTwoSeconds ==
    /\ (lastCopy >= 0 /\ now < lastCopy + ResetDelay) => copied = TRUE
    /\ (lastCopy >= 0 /\ now > lastCopy + ResetDelay) => copied = FALSE
    /\ lastCopy < 0 => (copied = FALSE /\ timers = {})

=============================================================================
